---- MODULE Spec2Model ----
(***************************************************************************)
(* canChat/mega/mega.ino: an Arduino Mega node on a CAN bus.  The node     *)
(* sends chat texts and LED commands, and classifies the frames it reads   *)
(* as chat or as LED command.  One action per setup step and per thread    *)
(* handler; every handler runs to completion (ThreadController::run calls  *)
(* them one after another from loop()).                                    *)
(***************************************************************************)
EXTENDS Integers, Sequences, FiniteSets, TLC

(***************************************************************************)
(* Types and constants of the sketch                                       *)
(***************************************************************************)
UNO == 0
MEGA == 1

NONE == 0
JZ == 1
RH == 2
WM == 4
EH == 8
DC == 16

LOW == 0
HIGH == 1

CAN_MAX_CHAR_IN_MESSAGE == 8
CAN_ID_CHAT == 1023
CAN_SRC_SHIFT == 5
CAN_CHAT_MASK == 1024
CAN_ZERO_MASK == 31
CAN_DEVICE_CMD == 1024
MY_DEVICE == MEGA
DEVICE_TO_COMMAND == UNO
DEV_INDEX == 0
VAL_INDEX == 1

\* widths of the AVR types the sketch uses
ByteRange == 256
UIntRange == 65536

Identities == {JZ, RH, WM, EH, DC}

(***************************************************************************)
(* Bitwise operators of C on non-negative integers                         *)
(***************************************************************************)
RECURSIVE BitAnd(_, _)
BitAnd(a, b) ==
  IF a = 0 \/ b = 0 THEN 0
  ELSE (a % 2) * (b % 2) + 2 * BitAnd(a \div 2, b \div 2)

RECURSIVE BitOr(_, _)
BitOr(a, b) ==
  IF a = 0 THEN b
  ELSE IF b = 0 THEN a
  ELSE (IF a % 2 = 1 \/ b % 2 = 1 THEN 1 ELSE 0) + 2 * BitOr(a \div 2, b \div 2)

RECURSIVE Pow2(_)
Pow2(n) == IF n = 0 THEN 1 ELSE 2 * Pow2(n - 1)

ShiftLeft(a, n) == a * Pow2(n)
ShiftRight(a, n) == a \div Pow2(n)

\* ~x on a 16-bit pattern.  Every value complemented in the sketch (an 11-bit
\* identifier, an identity bit) lies below 2^16 and is then masked with a
\* constant below 2^16, so the bits above bit 15 never reach a result.
BitNot(x) == (UIntRange - 1) - x

\* the element of a one-element set: TheOne({e(x) : x \in {v}}) is e(v) with
\* v worked out once
TheOne(S) == CHOOSE v \in S : TRUE

(***************************************************************************)
(* Frames                                                                  *)
(***************************************************************************)
Frame(id, len, data) == [id |-> id, len |-> len, data |-> data]

\* mpcCan.sendMsgBuf(id, CAN_BASE_FRAME_FORMAT, len, buf): the first len bytes
Prefix(s, n) == SubSeq(s, 1, n)

(***************************************************************************)
(* Sender functions                                                        *)
(***************************************************************************)
\* the identifier built without the shift of line 272
ChatIdNoShift(me_, destination_) ==
  LET id0 == BitAnd(0, CAN_ID_CHAT)
      id1 == BitOr(id0, me_)
  IN  BitOr(id1, destination_)

\* sendCanMsg, lines 270-273: the identifier of a chat frame
ChatId(me_, destination_) ==
  LET id0 == BitAnd(0, CAN_ID_CHAT)
      id1 == BitOr(id0, ShiftLeft(me_, CAN_SRC_SHIFT))
  IN  BitOr(id1, destination_)

\* byte len = strlen(msg): the length is kept in 8 bits
ByteLen(msg) == Len(msg) % ByteRange

\* sendCanMsg without the priming frame (lines 275-279 left out)
sendCanMsgNoPriming(msg, me_, destination_, lastId_) ==
  LET len == ByteLen(msg)
      id == ChatId(me_, destination_)
  IN  IF len > CAN_MAX_CHAR_IN_MESSAGE
      THEN [sent |-> << >>, lastId |-> lastId_,
            report |-> "Msg Len Too Long", logged |-> << >>]
      ELSE [sent |-> << Frame(id, len, Prefix(msg, len)) >>,
            lastId |-> id % UIntRange,
            report |-> "SENT",
            logged |-> << Frame(id, len, Prefix(msg, len)) >>]

\* sendCanMsg that sends the priming frame without saving the identifier
\* (line 278 left out)
sendCanMsgNoSave(msg, me_, destination_, lastId_) ==
  LET len == ByteLen(msg)
      id == ChatId(me_, destination_)
  IN  IF len > CAN_MAX_CHAR_IN_MESSAGE
      THEN [sent |-> << >>, lastId |-> lastId_,
            report |-> "Msg Len Too Long", logged |-> << >>]
      ELSE [sent |-> (IF lastId_ # id THEN << Frame(id, 0, << >>) >> ELSE << >>)
                     \o << Frame(id, len, Prefix(msg, len)) >>,
            lastId |-> lastId_,
            report |-> "SENT",
            logged |-> << Frame(id, len, Prefix(msg, len)) >>]

\* sendCanMsg(msg) with the globals it reads; yields the frames handed to the
\* transport in order, the new lastId, what is reported and what the LCD shows
sendCanMsg(msg, me_, destination_, lastId_) ==
  LET len == ByteLen(msg)
  IN  IF len > CAN_MAX_CHAR_IN_MESSAGE
      THEN [sent |-> << >>, lastId |-> lastId_,
            report |-> "Msg Len Too Long", logged |-> << >>]
      ELSE TheOne({
        [sent |-> (IF lastId_ # id THEN << Frame(id, 0, << >>) >> ELSE << >>)
                  \o << Frame(id, len, Prefix(msg, len)) >>,
         lastId |-> IF lastId_ # id THEN id % UIntRange ELSE lastId_,
         report |-> "SENT",
         logged |-> << Frame(id, len, Prefix(msg, len)) >>]
        : id \in {ChatId(me_, destination_)}})

\* canLedCmdSender that primes without saving the identifier (line 308 left
\* out)
canLedCmdSenderNoSave(ledVal, lastId_) ==
  LET data == << DEVICE_TO_COMMAND % ByteRange, ledVal % ByteRange >>
      sz == Len(data)
      id == CAN_DEVICE_CMD
  IN  [sent |-> (IF lastId_ # id THEN << Frame(id, 0, << >>) >> ELSE << >>)
                \o << Frame(id, sz, data) >>,
       lastId |-> lastId_,
       report |-> IF ledVal = HIGH THEN "LED On" ELSE "LED Off"]

\* canLedCmdSender naming the node's own device in the command
canLedCmdSenderToSelf(ledVal, lastId_) ==
  LET data == << MY_DEVICE % ByteRange, ledVal % ByteRange >>
      sz == Len(data)
      id == CAN_DEVICE_CMD
  IN  [sent |-> (IF lastId_ # id THEN << Frame(id, 0, << >>) >> ELSE << >>)
                \o << Frame(id, sz, data) >>,
       lastId |-> IF lastId_ # id THEN id % UIntRange ELSE lastId_,
       report |-> IF ledVal = HIGH THEN "LED On" ELSE "LED Off"]

\* canLedCmdSender with the two payload bytes in the other order
canLedCmdSenderSwapped(ledVal, lastId_) ==
  LET data == << ledVal % ByteRange, DEVICE_TO_COMMAND % ByteRange >>
      sz == Len(data)
      id == CAN_DEVICE_CMD
  IN  [sent |-> (IF lastId_ # id THEN << Frame(id, 0, << >>) >> ELSE << >>)
                \o << Frame(id, sz, data) >>,
       lastId |-> IF lastId_ # id THEN id % UIntRange ELSE lastId_,
       report |-> IF ledVal = HIGH THEN "LED On" ELSE "LED Off"]

\* canLedCmdSender(ledVal) with the global it reads
canLedCmdSender(ledVal, lastId_) ==
  LET data == << DEVICE_TO_COMMAND % ByteRange, ledVal % ByteRange >>
      sz == Len(data)
      id == CAN_DEVICE_CMD
  IN  [sent |-> (IF lastId_ # id THEN << Frame(id, 0, << >>) >> ELSE << >>)
                \o << Frame(id, sz, data) >>,
       lastId |-> IF lastId_ # id THEN id % UIntRange ELSE lastId_,
       report |-> IF ledVal = HIGH THEN "LED On" ELSE "LED Off"]

(***************************************************************************)
(* Condition checks and processing functions                               *)
(***************************************************************************)
\* isChat matching the local identity against the sender bits
isChatSenderForMe(id, me_) ==
  LET chat == BitAnd(BitNot(id), CAN_CHAT_MASK) > 0
      src == BitAnd(ShiftRight(id, CAN_SRC_SHIFT), CAN_ZERO_MASK) % ByteRange
  IN  [chat |-> chat /\ src > 0, sender |-> src, forMe |-> BitAnd(src, me_) > 0]

\* isChat without the sender test of line 365
isChatAnySender(id, me_) ==
  LET chat == BitAnd(BitNot(id), CAN_CHAT_MASK) > 0
      src == BitAnd(ShiftRight(id, CAN_SRC_SHIFT), CAN_ZERO_MASK) % ByteRange
      dst == BitAnd(id, CAN_ZERO_MASK) % ByteRange
  IN  [chat |-> chat, sender |-> src, forMe |-> BitAnd(dst, me_) > 0]

\* isChat(id, &sender, &forMe): the returned bool and the two out-parameters
isChat(id, me_) ==
  LET chat == BitAnd(BitNot(id), CAN_CHAT_MASK) > 0
      src == BitAnd(ShiftRight(id, CAN_SRC_SHIFT), CAN_ZERO_MASK) % ByteRange
      dst == BitAnd(id, CAN_ZERO_MASK) % ByteRange
  IN  [chat |-> chat /\ src > 0, sender |-> src, forMe |-> BitAnd(dst, me_) > 0]

\* isMyLed without the length test of line 379
isMyLedAnyLen(len, data) ==
  [mine |-> data[DEV_INDEX + 1] = MY_DEVICE, ledVal |-> data[VAL_INDEX + 1]]

\* isMyLed(len, data, &ledVal); data[k] of the sketch is data[k+1] here.
\* ledVal is left unset on the early return and is not read by the caller then.
isMyLed(len, data) ==
  IF len < VAL_INDEX + 1
  THEN [mine |-> FALSE, ledVal |-> 0]
  ELSE [mine |-> data[DEV_INDEX + 1] = MY_DEVICE, ledVal |-> data[VAL_INDEX + 1]]

\* digitalWrite(LED_PIN, val): the pin is driven low for 0 and high otherwise
digitalWrite(val) == IF val = LOW THEN LOW ELSE HIGH

\* processLedCmd writing the LED whatever isMyLed answers
processLedCmdAnyDevice(len, data, led_) ==
  LET r == isMyLed(len, data) IN digitalWrite(r.ledVal)

\* processLedCmd(len, data): the LED after the call
processLedCmd(len, data, led_) ==
  LET r == isMyLed(len, data)
  IN  IF r.mine THEN digitalWrite(r.ledVal) ELSE led_

\* displayChatMessage printing one byte less than the frame holds
displayChatMessageShort(sender, len, data) ==
  [sender |-> sender, len |-> len, data |-> Prefix(data, len - 1)]

\* displayChatMessage(sender, len, data): the sender and the len bytes shown
displayChatMessage(sender, len, data) ==
  [sender |-> sender, len |-> len, data |-> Prefix(data, len)]

\* processCanPacket calling processLedCmd for chat frames too
processCanPacketAlwaysLed(id, len, data, me_, led_) ==
  TheOne({
    [led    |-> processLedCmd(len, data, led_),
     shown  |-> IF c.chat /\ c.forMe
                THEN << displayChatMessage(c.sender, len, data) >>
                ELSE << >>,
     logged |-> << Frame(id, len, Prefix(data, len)) >>]
    : c \in {isChat(id, me_)}})

\* processCanPacket(id, len, data): the LED after the call, the chat shown
\* (none or one) and the raw packet logged on the LCD
processCanPacket(id, len, data, me_, led_) ==
  TheOne({
    [led |-> IF c.chat THEN led_ ELSE processLedCmd(len, data, led_),
     shown |-> IF c.chat /\ c.forMe
               THEN << displayChatMessage(c.sender, len, data) >>
               ELSE << >>,
     logged |-> << Frame(id, len, Prefix(data, len)) >>]
    : c \in {isChat(id, me_)}})

(***************************************************************************)
(* Operator input: texts are sequences of character codes                  *)
(***************************************************************************)
IsSpace(c) == c \in {9, 10, 11, 12, 13, 32}
IsDigit(c) == c >= 48 /\ c <= 57

RECURSIVE SkipSpace(_)
SkipSpace(s) == IF s # << >> /\ IsSpace(Head(s)) THEN SkipSpace(Tail(s)) ELSE s

RECURSIVE DropSpaceAtEnd(_)
DropSpaceAtEnd(s) ==
  IF s # << >> /\ IsSpace(s[Len(s)])
  THEN DropSpaceAtEnd(SubSeq(s, 1, Len(s) - 1))
  ELSE s

\* String::trim(): white space removed at both ends
Trim(s) == DropSpaceAtEnd(SkipSpace(s))

RECURSIVE Digits(_, _)
Digits(s, acc) ==
  IF s # << >> /\ IsDigit(Head(s))
  THEN Digits(Tail(s), acc * 10 + (Head(s) - 48))
  ELSE acc

\* atoi(reply.c_str()): leading white space, an optional sign, then digits up
\* to the first other character; 0 when there is no digit
Atoi(s) ==
  LET t == SkipSpace(s)
  IN  IF t = << >> THEN 0
      ELSE IF Head(t) = 45 THEN 0 - Digits(Tail(t), 0)
      ELSE IF Head(t) = 43 THEN Digits(Tail(t), 0)
      ELSE Digits(t, 0)

\* reply.startsWith("n")
StartsWithN(s) == s # << >> /\ Head(s) = 110

(***************************************************************************)
(* State                                                                   *)
(***************************************************************************)
VARIABLES
  pc,             \* where the sketch is: setupCan, setupUser, setupTargets,
                  \* run (loop), crashed (after an overrun took the node down)
  me,             \* Zero me
  destination,    \* byte destination
  lastId,         \* unsigned int lastId
  lastButtonVal,  \* static int lastButtonVal of buttonHandler
  led,            \* level of LED_PIN
  canId,          \* what mpcCan.getCanId() returns: the identifier of the
                  \* frame the last successful readMsgBuf read
  selections,     \* replies setupTargets has read without leaving its loop
  sent,           \* frames the last handler handed to mpcCan.sendMsgBuf
  shown,          \* what the last handler handed to displayChatMessage
  logged,         \* what the last handler handed to displayCanPacket
  report,         \* the last message the last handler printed
  op              \* the last handler that ran and its input

vars == << pc, me, destination, lastId, lastButtonVal, led, canId, selections,
           sent, shown, logged, report, op >>

Op(name, how, num, len, data) ==
  [name |-> name, how |-> how, num |-> num, len |-> len, data |-> data]

\* the globals and statics as initialised, before setup() runs
Init ==
  /\ pc = "setupCan"
  /\ me = NONE
  /\ destination = 0
  /\ lastId = 0
  /\ lastButtonVal = LOW
  /\ led = LOW
  /\ canId = 0
  /\ selections = 0
  /\ sent = << >>
  /\ shown = << >>
  /\ logged = << >>
  /\ report = "none"
  /\ op = Op("none", "none", 0, 0, << >>)

(***************************************************************************)
(* Bounds of the model                                                     *)
(***************************************************************************)
\* replies setupTargets reads without leaving its loop
MaxSelections == 2
\* largest number typed at a setup prompt
MaxReply == 7
\* longest short text typed at the chat prompt
MaxTextLen == 9

(***************************************************************************)
(* Setup functions                                                         *)
(***************************************************************************)
\* setupCan with a single attempt: it goes on whatever mpcCan.begin answers
setupCanOnce(ok) ==
  /\ pc = "setupCan"
  /\ pc' = "setupUser"
  /\ report' = IF ok THEN "Init Ready" ELSE "Init Failed"
  /\ op' = Op("setupCan", IF ok THEN "ok" ELSE "fail", 0, 0, << >>)
  /\ sent' = << >> /\ shown' = << >> /\ logged' = << >>
  /\ UNCHANGED << me, destination, lastId, lastButtonVal, led, canId, selections >>

\* setupCan: one pass of the retry loop; ok is what mpcCan.begin answers
setupCan(ok) ==
  /\ pc = "setupCan"
  /\ pc' = IF ok THEN "setupUser" ELSE "setupCan"
  /\ report' = IF ok THEN "Init Ready" ELSE "Init Failed"
  /\ op' = Op("setupCan", IF ok THEN "ok" ELSE "fail", 0, 0, << >>)
  /\ sent' = << >> /\ shown' = << >> /\ logged' = << >>
  /\ UNCHANGED << me, destination, lastId, lastButtonVal, led, canId, selections >>

\* setupUser, lines 576-600: the identity of the number selected
UserOf(member) ==
  CASE member = 1 -> JZ
    [] member = 2 -> RH
    [] member = 3 -> WM
    [] member = 4 -> EH
    [] member = 5 -> DC
    [] OTHER -> NONE

\* setupUser with a loop that goes on while member < 0 only: 0 leaves it
setupUserAdmitsZero(reply) ==
  LET numMembers == 5
      member == Atoi(reply)
      again == (member < 0) \/ (member >= numMembers)
  IN  /\ pc = "setupUser"
      /\ pc' = IF again THEN "setupUser" ELSE "setupTargets"
      /\ me' = IF again THEN me ELSE UserOf(member)
      /\ destination' = IF again THEN destination ELSE 0
      /\ report' = IF again THEN "none" ELSE "Welcome"
      /\ op' = Op("setupUser", IF again THEN "again" ELSE "selected",
                  member, Len(reply), reply)
      /\ sent' = << >> /\ shown' = << >> /\ logged' = << >>
      /\ UNCHANGED << lastId, lastButtonVal, led, canId, selections >>

\* setupUser: one reply read by the selection loop.  numMembers is 5 after the
\* five names are printed; the loop goes on while member <= 0 or
\* member >= numMembers.  Leaving the loop runs the switch, and setupTargets
\* then starts by clearing destination.
setupUser(reply) ==
  LET numMembers == 5
      member == Atoi(reply)
      again == (member <= 0) \/ (member >= numMembers)
  IN  /\ pc = "setupUser"
      /\ pc' = IF again THEN "setupUser" ELSE "setupTargets"
      /\ me' = IF again THEN me ELSE UserOf(member)
      /\ destination' = IF again THEN destination ELSE 0
      /\ report' = IF again THEN "none" ELSE "Welcome"
      /\ op' = Op("setupUser", IF again THEN "again" ELSE "selected",
                  member, Len(reply), reply)
      /\ sent' = << >> /\ shown' = << >> /\ logged' = << >>
      /\ UNCHANGED << lastId, lastButtonVal, led, canId, selections >>

\* 1U << n on the 16-bit unsigned int of the AVR, for a count the language
\* defines (0..15)
ShiftOne(n) == ShiftLeft(1, n) % UIntRange

\* 1U << n for a negative count or one of 16 or more is undefined: the
\* shifter either yields the operand unshifted or shifts every bit out
UndefinedShift == {0, 1}

\* setupTargets, lines 639-640: everyone but me
BroadcastMinusSelf(me_) == BitAnd(CAN_ZERO_MASK, BitNot(me_)) % ByteRange

\* setupTargets: one reply read by the selection loop; allMembers is 6 after
\* the six choices are printed
setupTargets(reply, shifted) ==
  LET allMembers == 6
      member == Atoi(reply)
      done == StartsWithN(reply) /\ (destination # 0)
      defined == (member - 1 >= 0) /\ (member - 1 <= 15)
  IN  /\ pc = "setupTargets"
      /\ shifted \in (IF defined THEN {ShiftOne(member - 1)} ELSE UndefinedShift)
      /\ IF done
         THEN /\ pc' = "run"
              /\ report' = "You can now send messages."
              /\ op' = Op("setupTargets", "done", 0, Len(reply), reply)
              /\ UNCHANGED << destination, selections >>
         ELSE IF member = allMembers
         THEN /\ pc' = "run"
              /\ destination' = BroadcastMinusSelf(me)
              /\ report' = "You can now send messages."
              /\ op' = Op("setupTargets", "broadcast", member, Len(reply), reply)
              /\ UNCHANGED selections
         ELSE IF (member > 0) \/ (member < allMembers)
         THEN /\ selections < MaxSelections
              /\ pc' = "setupTargets"
              /\ destination' = BitOr(destination, shifted) % ByteRange
              /\ report' = "Another member (n to exit)?"
              /\ op' = Op("setupTargets", "added", member, Len(reply), reply)
              /\ selections' = selections + 1
         ELSE /\ selections < MaxSelections
              /\ pc' = "setupTargets"
              /\ report' = "Input types is out of range!"
              /\ op' = Op("setupTargets", "invalid", member, Len(reply), reply)
              /\ selections' = selections + 1
              /\ UNCHANGED destination
      /\ sent' = << >> /\ shown' = << >> /\ logged' = << >>
      /\ UNCHANGED << me, lastId, lastButtonVal, led, canId >>

(***************************************************************************)
(* Threads                                                                 *)
(***************************************************************************)
\* buttonHandler that does not save the value it sent (line 440 left out)
buttonHandlerNoSave(buttonVal) ==
  \E r \in {canLedCmdSender(buttonVal, lastId)} :
  LET changed == buttonVal # lastButtonVal
  IN  /\ pc = "run"
      /\ sent' = IF changed THEN r.sent ELSE << >>
      /\ lastId' = IF changed THEN r.lastId ELSE lastId
      /\ report' = IF changed THEN r.report ELSE "none"
      /\ op' = Op("buttonHandler", IF changed THEN "changed" ELSE "same",
                  buttonVal, 0, << >>)
      /\ shown' = << >> /\ logged' = << >>
      /\ UNCHANGED << pc, me, destination, led, canId, selections, lastButtonVal >>

\* buttonHandler: buttonVal is what digitalRead(BUTTON_PIN) answers
buttonHandler(buttonVal) ==
  \E r \in {canLedCmdSender(buttonVal, lastId)} :
  LET changed == buttonVal # lastButtonVal
  IN  /\ pc = "run"
      /\ sent' = IF changed THEN r.sent ELSE << >>
      /\ lastId' = IF changed THEN r.lastId ELSE lastId
      /\ report' = IF changed THEN r.report ELSE "none"
      /\ lastButtonVal' = IF changed THEN buttonVal ELSE lastButtonVal
      /\ op' = Op("buttonHandler", IF changed THEN "changed" ELSE "same",
                  buttonVal, 0, << >>)
      /\ shown' = << >> /\ logged' = << >>
      /\ UNCHANGED << pc, me, destination, led, canId, selections >>

\* byte data[CAN_MAX_CHAR_IN_MESSAGE], cleared by memset and then filled by
\* readMsgBuf with the len bytes of the frame
ReadBuffer(frame) ==
  frame.data \o [i \in 1..(CAN_MAX_CHAR_IN_MESSAGE - frame.len) |-> 0]

\* canMsgReceiver that also saves the identifier it classified in lastId
canMsgReceiverSavesId(avail, readOk, frame) ==
  LET id == canId
      data == ReadBuffer(frame)
  IN  /\ pc = "run"
      /\ IF ~avail
         THEN /\ op' = Op("canMsgReceiver", "no message", 0, 0, << >>)
              /\ report' = "none"
              /\ shown' = << >> /\ logged' = << >>
              /\ UNCHANGED << led, canId, lastId >>
         ELSE IF ~readOk
         THEN /\ op' = Op("canMsgReceiver", "read failed", id, 0, << >>)
              /\ report' = "Read Failed"
              /\ shown' = << >> /\ logged' = << >>
              /\ UNCHANGED << led, canId, lastId >>
         ELSE \E r \in {processCanPacket(id, frame.len, data, me, led)} :
              /\ op' = Op("canMsgReceiver", "read", id, frame.len, frame.data)
              /\ canId' = frame.id
              /\ lastId' = id % UIntRange
              /\ led' = r.led
              /\ shown' = r.shown
              /\ logged' = r.logged
              /\ report' = "none"
      /\ sent' = << >>
      /\ UNCHANGED << pc, me, destination, lastButtonVal, selections >>

\* canMsgReceiver without the return of line 459: after a failed read it
\* goes on to processCanPacket with the cleared buffer
canMsgReceiverNoReturn(avail, readOk, frame) ==
  LET id == canId
      len == IF readOk THEN frame.len ELSE 0
      data == IF readOk THEN ReadBuffer(frame)
              ELSE [i \in 1..CAN_MAX_CHAR_IN_MESSAGE |-> 0]
  IN  /\ pc = "run"
      /\ IF ~avail
         THEN /\ op' = Op("canMsgReceiver", "no message", 0, 0, << >>)
              /\ report' = "none"
              /\ shown' = << >> /\ logged' = << >>
              /\ UNCHANGED << led, canId >>
         ELSE \E r \in {processCanPacket(id, len, data, me, led)} :
              /\ op' = Op("canMsgReceiver",
                          IF readOk THEN "read" ELSE "read failed",
                          id, len, Prefix(data, len))
              /\ canId' = IF readOk THEN frame.id ELSE canId
              /\ led' = r.led
              /\ shown' = r.shown
              /\ logged' = r.logged
              /\ report' = IF readOk THEN "none" ELSE "Read Failed"
      /\ sent' = << >>
      /\ UNCHANGED << pc, me, destination, lastId, lastButtonVal, selections >>

\* canMsgReceiver: avail is whether checkReceive answers CAN_MSGAVAIL, readOk
\* whether readMsgBuf answers CAN_OK, frame the frame readMsgBuf reads.  The
\* identifier is taken from getCanId before readMsgBuf reads the frame.
canMsgReceiver(avail, readOk, frame) ==
  LET id == canId
      data == ReadBuffer(frame)
  IN  /\ pc = "run"
      /\ IF ~avail
         THEN /\ op' = Op("canMsgReceiver", "no message", 0, 0, << >>)
              /\ report' = "none"
              /\ shown' = << >> /\ logged' = << >>
              /\ UNCHANGED << led, canId >>
         ELSE IF ~readOk
         THEN /\ op' = Op("canMsgReceiver", "read failed", id, 0, << >>)
              /\ report' = "Read Failed"
              /\ shown' = << >> /\ logged' = << >>
              /\ UNCHANGED << led, canId >>
         ELSE \E r \in {processCanPacket(id, frame.len, data, me, led)} :
              /\ op' = Op("canMsgReceiver", "read", id, frame.len, frame.data)
              /\ canId' = frame.id
              /\ led' = r.led
              /\ shown' = r.shown
              /\ logged' = r.logged
              /\ report' = "none"
      /\ sent' = << >>
      /\ UNCHANGED << pc, me, destination, lastId, lastButtonVal, selections >>

\* capacity of char msg[CAN_MAX_CHAR_IN_MESSAGE] of canMsgSender
MsgCapacity == CAN_MAX_CHAR_IN_MESSAGE

\* strcpy(msg, entered.c_str()) writes the characters and the terminating zero
Overrun(text) == Len(text) + 1 > MsgCapacity

\* canMsgSender: avail is whether Serial.available() is non-zero, entered what
\* Serial.readString() answers.  A copy that overruns msg is undefined: the
\* bytes past the buffer lie in the caller's frames, above the frame of
\* sendCanMsg, so sendCanMsg runs on the whole text and the node then either
\* goes on (after) or is taken down when canMsgSender returns.
canMsgSender(avail, entered, after) ==
      /\ pc = "run"
      /\ IF ~avail
         THEN /\ after = "run"
              /\ op' = Op("canMsgSender", "no input", 0, 0, << >>)
              /\ sent' = << >> /\ logged' = << >>
              /\ report' = "none"
              /\ UNCHANGED << pc, lastId >>
         ELSE \E msg \in {Trim(entered)} :
              \E r \in {sendCanMsg(msg, me, destination, lastId)} :
              /\ after \in (IF Overrun(msg) THEN {"run", "crashed"} ELSE {"run"})
              /\ op' = Op("canMsgSender", "entered", 0, Len(msg), msg)
              /\ sent' = r.sent
              /\ lastId' = r.lastId
              /\ logged' = r.logged
              /\ report' = r.report
              /\ pc' = after
      /\ shown' = << >>
      /\ UNCHANGED << me, destination, lastButtonVal, led, canId, selections >>

(***************************************************************************)
(* Inputs of the environment                                               *)
(***************************************************************************)
RECURSIVE Decimal(_)
Decimal(k) == IF k < 10 THEN << 48 + k >> ELSE Decimal(k \div 10) \o << 48 + (k % 10) >>

\* what the operator types at the two setup prompts: a number, "11" (a shift
\* past the byte that holds destination), "-1", "n", "x"
Replies ==
  {Decimal(k) : k \in 0..MaxReply}
  \cup {<< 49, 49 >>, << 45, 49 >>, << 110 >>, << 120 >>}

\* a few of them, "2", "6", "7", "n": one identity, recipients in and out of
\* the identity bits, everyone, and the end of the selection
SendReplies == {Decimal(2), Decimal(6), Decimal(7), << 110 >>}

\* a few of them, "2", "6": one identity, everyone as recipients
RecvReplies == {Decimal(2), Decimal(6)}

\* every value the shift of setupTargets can yield
ShiftResults == {ShiftOne(n) : n \in 0..15} \cup UndefinedShift

\* a text of n letters, a b c ...
Fill(n) == [i \in 1..n |-> 97 + ((i - 1) % 26)]

\* what the operator types at the chat prompt: short texts, texts around the
\* range of the byte that holds the length, "hi" and an empty line ended by a
\* line feed, and two control characters
SerialTexts ==
  {Fill(n) : n \in 1..MaxTextLen}
  \cup {Fill(n) : n \in {ByteRange - 1, ByteRange, ByteRange + 1,
                        ByteRange + CAN_MAX_CHAR_IN_MESSAGE,
                        ByteRange + CAN_MAX_CHAR_IN_MESSAGE + 1}}
  \cup {<< 104, 105, 10 >>, << 10 >>, << 1, 1 >>}

\* a few of them: one that fits and one that does not
FewTexts == {Fill(2), Fill(CAN_MAX_CHAR_IN_MESSAGE + 1)}

\* a few of them: "hi", one that fills a frame and one that does not fit
ChatTexts == {<< 104, 105 >>, Fill(CAN_MAX_CHAR_IN_MESSAGE),
              Fill(CAN_MAX_CHAR_IN_MESSAGE + 1)}

\* the other nodes run the same sketch: a peer is an identity and the
\* recipients it chose
Peers ==
  {<< RH, BitOr(WM, EH) >>, << WM, RH >>}
  \cup {<< i, BroadcastMinusSelf(i) >> : i \in {JZ, RH}}

PeerTexts == {<< 104, 105 >>, Fill(CAN_MAX_CHAR_IN_MESSAGE), << 1, 1 >>}

\* the frames of a sequence
FramesOf(q) == {q[k] : k \in 1..Len(q)}

\* frames a peer's sendCanMsg puts on the bus: priming frame and data frame
PeerChatFrames ==
  UNION {FramesOf(sendCanMsg(t, p[1], p[2], 0).sent) : p \in Peers, t \in PeerTexts}

\* frames a peer's canLedCmdSender puts on the bus
PeerCmdFrames ==
  UNION {FramesOf(canLedCmdSender(v, 0).sent) : v \in {LOW, HIGH}}

\* other traffic: an identifier with an empty sender field, the command
\* identifier, an identifier with the kind bit and a sender; payloads of 0 to
\* 3 bytes naming either device
RawIds == {CAN_ZERO_MASK, CAN_DEVICE_CMD, CAN_DEVICE_CMD + CAN_ID_CHAT}
RawPayloads == {<< MEGA >>, << MEGA, 0 >>, << MEGA, 1 >>, << MEGA, 2 >>,
                << UNO, 1 >>, << MEGA, 1, 0 >>}
RawFrames == {Frame(id, Len(d), d) : id \in RawIds, d \in RawPayloads}

RxFrames == PeerChatFrames \cup PeerCmdFrames \cup RawFrames

\* a few of them: a chat from JZ to everyone else, a command for this board
FewFrames ==
  {Frame(ChatId(JZ, BroadcastMinusSelf(JZ)), 2, << 104, 105 >>),
   Frame(CAN_DEVICE_CMD, 2, << MEGA, HIGH >>)}

\* one of them: the chat from JZ to everyone else
OneFrame == {Frame(ChatId(JZ, BroadcastMinusSelf(JZ)), 2, << 104, 105 >>)}

NoFrame == Frame(0, 0, << >>)

(***************************************************************************)
(* The sketch: setup() and then loop() running the three threads           *)
(***************************************************************************)
\* setup(): setupCan, then setupUser, then setupTargets, each reading from
\* the replies the operator may type
SetupStep(replies) ==
  \/ \E ok \in BOOLEAN : setupCan(ok)
  \/ \E reply \in replies : setupUser(reply)
  \/ \E reply \in replies, shifted \in ShiftResults : setupTargets(reply, shifted)

\* the three threads threadControl.run() runs, each to completion
ButtonStep == \E buttonVal \in {LOW, HIGH} : buttonHandler(buttonVal)

RecvStep(frames) ==
  \/ canMsgReceiver(FALSE, FALSE, NoFrame)
  \/ canMsgReceiver(TRUE, FALSE, NoFrame)
  \/ \E frame \in frames : canMsgReceiver(TRUE, TRUE, frame)

SendStep(texts) ==
  \/ canMsgSender(FALSE, << >>, "run")
  \/ \E entered \in texts, after \in {"run", "crashed"} :
        canMsgSender(TRUE, entered, after)

\* loop()
LoopStep(texts, frames) == ButtonStep \/ RecvStep(frames) \/ SendStep(texts)

\* the whole sketch, every reply of the setup prompts, little traffic
Next == SetupStep(Replies) \/ LoopStep(FewTexts, FewFrames)
Spec == Init /\ [][Next]_vars

\* the whole sketch, every text of the chat prompt
NextSend == SetupStep(SendReplies) \/ LoopStep(SerialTexts, OneFrame)
SpecSend == Init /\ [][NextSend]_vars

\* the whole sketch, every frame of the bus
NextRecv == SetupStep(RecvReplies) \/ LoopStep(ChatTexts, RxFrames)
SpecRecv == Init /\ [][NextRecv]_vars

\* the node in loop() with any identity and any set of recipients
InitEncode ==
  /\ pc = "run"
  /\ me \in Identities
  /\ destination \in 0..CAN_ZERO_MASK
  /\ lastId = 0 /\ lastButtonVal = LOW /\ led = LOW /\ canId = 0
  /\ selections = 0
  /\ sent = << >> /\ shown = << >> /\ logged = << >>
  /\ report = "none"
  /\ op = Op("none", "none", 0, 0, << >>)

\* the chat sender applied to every identity and set of recipients
SpecEncode == InitEncode /\ [][SendStep(FewTexts)]_vars

\* the node in loop() with any identity, after a frame of any 11-bit
\* identifier was read
InitClassify ==
  /\ pc = "run"
  /\ me \in Identities
  /\ destination = BroadcastMinusSelf(me)
  /\ canId \in 0..(CAN_DEVICE_CMD + CAN_ID_CHAT)
  /\ lastId = 0 /\ lastButtonVal = LOW /\ led = LOW
  /\ selections = 0
  /\ sent = << >> /\ shown = << >> /\ logged = << >>
  /\ report = "none"
  /\ op = Op("none", "none", 0, 0, << >>)

\* the receiver applied to every identifier
SpecClassify == InitClassify /\ [][RecvStep(FewFrames)]_vars

(***************************************************************************)
(* Properties                                                              *)
(***************************************************************************)
\* the last handler was canMsgSender and it read a text
ChatEntered == op.name = "canMsgSender" /\ op.how = "entered"
\* ... and sendCanMsg did not reject it
ChatSend == ChatEntered /\ report # "Msg Len Too Long"
\* the last handler was buttonHandler and it called canLedCmdSender
CmdSend == op.name = "buttonHandler" /\ op.how = "changed"
\* the last handler was canMsgReceiver and it handed a frame to processCanPacket
Received == op.name = "canMsgReceiver" /\ op.how = "read"

LastOf(q) == q[Len(q)]

\* C1: a chat send or LED-command send whose identifier differs from lastId
\* hands the transport an empty frame with the new identifier and then the
\* data frame with the same identifier; a send whose identifier equals lastId
\* hands it the data frame alone.
C1_PrimingOnIdChange ==
  [][(ChatSend' \/ CmdSend') =>
       /\ sent' # << >>
       /\ LET d == LastOf(sent')
          IN  /\ CmdSend' => d.id = 1024
              /\ IF lastId # d.id
                 THEN sent' = << [id |-> d.id, len |-> 0, data |-> << >>], d >>
                 ELSE sent' = << d >>]_vars

\* a chat send that needed no priming frame, after a command was sent
C1_Witness ==
  /\ ChatSend /\ Len(sent) = 1 /\ sent[1].len > 0
  /\ lastButtonVal = HIGH

\* C2: sendCanMsg reports the too-long error exactly for the texts of more
\* than 8 characters, whatever their length; a text it does not reject is sent.
C2_TooLongIffOverMax ==
  ChatEntered =>
    /\ (report = "Msg Len Too Long") <=> (op.len > 8)
    /\ (op.len <= 8) => (sent # << >> /\ LastOf(sent).len = op.len)

\* C3: when sendCanMsg rejects a text, no frame is handed to the transport,
\* lastId, me and destination keep their values, and the node keeps running.
C3_RejectedSendChangesNothing ==
  [][(ChatEntered' /\ report' = "Msg Len Too Long") =>
       /\ sent' = << >>
       /\ lastId' = lastId /\ me' = me /\ destination' = destination
       /\ pc' = "run"]_vars

\* the sub-fields of an identifier, by arithmetic
KindBitOf(id) == (id \div 1024) % 2
SenderOf(id) == (id \div 32) % 32
RecipientsOf(id) == id % 32
\* the identifier is that of a valid chat frame
ValidChatId(id) == KindBitOf(id) = 0 /\ SenderOf(id) # 0
\* the identity who (one bit) is among the recipient bits rcpts
Among(who, rcpts) == (rcpts \div who) % 2 = 1

\* C4: for each of the five identities as me and each recipient set as
\* destination, the identifier of the chat frames sendCanMsg sends has the
\* kind bit clear, is classified as chat by isChat, carries me as sender and
\* destination as recipient bits; RH sending to WM and EH gives sender 0x02
\* and recipients 0x0C.
C4_ChatIdEncoding ==
  ChatSend =>
    /\ sent # << >>
    /\ \A f \in FramesOf(sent) :
         /\ KindBitOf(f.id) = 0 /\ f.id < 2048
         /\ SenderOf(f.id) = me
         /\ RecipientsOf(f.id) = destination
         /\ \A who \in Identities :
              LET c == isChat(f.id, who)
              IN  c.chat /\ c.sender = me
         /\ (me = 2 /\ destination = 12) => f.id = 76

\* RH has sent a chat frame to WM and EH
C4_Witness ==
  /\ ChatSend /\ me = RH /\ destination = 12
  /\ Len(sent) = 2 /\ sent[2].len = 2

C6_ForMeIffRecipient ==
  Received =>
    /\ isChat(op.num, me).forMe <=> Among(me, RecipientsOf(op.num))
    /\ ValidChatId(op.num) =>
         ((shown # << >>) <=> Among(me, RecipientsOf(op.num)))
    /\ \A s \in Identities :
         (op.num = s * 32 + (31 - s)) => ((shown # << >>) <=> (me # s))

\* DC is shown what JZ broadcast
C6_Witness ==
  /\ Received /\ op.num = 62 /\ me = DC
  /\ Len(shown) = 1 /\ shown[1].sender = JZ

\* C7: for every 11-bit identifier, isChat returns true exactly when the kind
\* bit is clear and the sender bits are not zero; a frame handed over with an
\* identifier whose sender bits are zero goes to the command path, kind bit
\* set or not.
C7_ChatIffKindClearAndSender ==
  Received =>
    /\ op.num < 2048
    /\ isChat(op.num, me).chat <=> (KindBitOf(op.num) = 0 /\ SenderOf(op.num) # 0)
    /\ (SenderOf(op.num) = 0) =>
         /\ shown = << >>
         /\ (op.len >= 2 /\ op.data[1] = 1) =>
              (led = IF op.data[2] = 0 THEN 0 ELSE 1)
    /\ (ValidChatId(op.num) /\ Among(me, RecipientsOf(op.num))) => shown # << >>

\* a frame handed over with kind bit clear and no sender has set the LED
C7_Witness ==
  /\ Received /\ KindBitOf(op.num) = 0 /\ SenderOf(op.num) = 0
  /\ op.data = << MEGA, HIGH >> /\ led = HIGH

\* the receive step handed processCanPacket an identifier that is not chat
CommandStep == Received' /\ ~ValidChatId(op'.num)

C10_CommandFrameShape ==
  /\ CmdSend =>
       /\ sent # << >>
       /\ LastOf(sent) = [id |-> 1024, len |-> 2, data |-> << 0, op.num >>]
       /\ \A f \in FramesOf(sent) : f.id = 1024
  /\ ChatEntered => \A f \in FramesOf(sent) : f.id # 1024

\* the button went up: the command to switch off was sent without priming
C10_Witness ==
  /\ CmdSend /\ op.num = LOW
  /\ sent = << [id |-> 1024, len |-> 2, data |-> << UNO, LOW >>] >>

\* the last step was a reply read by setupTargets that did not end the selection
\* with "n"
TargetReply == op.name = "setupTargets" /\ op.how # "done"

\* C11: whatever the operator entered during setup, every chat frame sent
\* afterwards carries exactly me in bits 5-9 and exactly destination in bits
\* 0-4, and destination holds no bit outside the five identity bits.
C11_SubFieldsNeverOverlap ==
  /\ (pc = "run") => destination < 32
  /\ ChatSend =>
       \A f \in FramesOf(sent) :
         SenderOf(f.id) = me /\ RecipientsOf(f.id) = destination

\* C12: in setupTargets a reply that is none of the choices 1..6 (0, a
\* negative number, text that is no number, a number above 6) leaves
\* destination as it is, prints the invalid-selection message and asks again.
C12_InvalidSelectionRejected ==
  [][(TargetReply' /\ ~(op'.num \in 1..6)) =>
       /\ destination' = destination
       /\ report' = "Input types is out of range!"
       /\ pc' = "setupTargets"]_vars

\* C13: each of the ordinals 1..5 entered at the identity prompt ends
\* setupUser with me the identity of that ordinal: JZ, RH, WM, EH, DC.
C13_OrdinalSelectsIdentity ==
  (op.name = "setupUser" /\ op.num \in 1..5) =>
    /\ op.how = "selected"
    /\ me = << JZ, RH, WM, EH, DC >>[op.num]

\* setup() has returned
SetupDone == pc \in {"run", "crashed"}

\* C14: once setup has returned me is not NONE, and every chat frame the node
\* sends has sender bits that are not zero and is a chat for isChat at every
\* receiving identity.
C14_SenderNeverNone ==
  /\ SetupDone => me # 0
  /\ ChatSend =>
       \A f \in FramesOf(sent) :
         /\ SenderOf(f.id) # 0
         /\ \A who \in Identities : isChat(f.id, who).chat

\* JZ has sent a chat with bit 6 set in destination
C14_Witness ==
  /\ ChatSend /\ Len(sent) = 2 /\ sent[2].len = 2
  /\ me = JZ /\ destination = 64

\* C15: once setup has returned no handler of the run loop changes me or
\* destination; lastId changes only in a step in which sendCanMsg or
\* canLedCmdSender sent frames, and never in a step of canMsgReceiver.
C15_SessionStateFrame ==
  [][(pc = "run") =>
       /\ me' = me /\ destination' = destination
       /\ (lastId' # lastId) =>
            /\ (ChatSend' \/ CmdSend') /\ sent' # << >>
            /\ lastId' = LastOf(sent').id
       /\ (op'.name = "canMsgReceiver") => lastId' = lastId]_vars

\* a frame was read under another identifier than the one last sent
C15_Witness ==
  /\ Received /\ op.num # lastId /\ canId # lastId
  /\ lastId = 1024 /\ me = RH /\ destination = 29

\* C16: the handlers run one after another, each to its end, so the frames
\* one handler sends are never mixed with another's: a handler that sends
\* ends with its data frame, any frame before it is the priming frame of
\* that very send (empty, same identifier, directly before it), and when the
\* data frame has gone out lastId is its identifier.
C16_SendsNeverInterleave ==
  [][(sent' # << >>) =>
       /\ (ChatSend' \/ CmdSend') /\ ~(ChatSend' /\ CmdSend')
       /\ Len(sent') <= 2
       /\ \A k \in 1..(Len(sent') - 1) :
            /\ sent'[k].len = 0
            /\ sent'[k].id = sent'[k + 1].id
       /\ lastId' = LastOf(sent').id
       /\ CmdSend' => LastOf(sent').id = 1024
       /\ ChatSend' => LastOf(sent').id < 1024]_vars

\* a chat went out with its priming frame right after a command had been sent
C16_Witness ==
  /\ ChatSend /\ Len(sent) = 2 /\ sent[1].len = 0 /\ sent[2].len = 2
  /\ sent[1].id = sent[2].id /\ lastId = sent[2].id
  /\ lastButtonVal = HIGH

\* C17: a frame is classified by its own identifier: the identifier
\* canMsgReceiver hands to processCanPacket is that of the frame whose payload
\* it has read, so the chat is shown exactly when the frame's own identifier
\* is a chat identifier addressed to me, whatever was received before.
C17_ClassifiedByOwnId ==
  Received =>
    /\ op.num = canId
    /\ (shown # << >>) <=> (ValidChatId(canId) /\ Among(me, RecipientsOf(canId)))

\* the receive step found a frame available and could not read it
ReadFailed == op.name = "canMsgReceiver" /\ op.how = "read failed"

\* C18: when a frame is available and reading it fails, canMsgReceiver
\* reports the failure and does nothing else: the LED, me, destination and
\* lastId keep their values, nothing is shown or logged for the frame, and
\* the node stays in its loop, where the frames that follow are read.
C18_ReadFailureDropsFrame ==
  [][ReadFailed' =>
       /\ report' = "Read Failed"
       /\ led' = led /\ me' = me /\ destination' = destination
       /\ lastId' = lastId
       /\ shown' = << >> /\ logged' = << >> /\ sent' = << >>
       /\ pc' = "run" /\ canId' = canId]_vars

\* a read failed while the LED was on and a chat identifier for me was held
C18_Witness ==
  /\ ReadFailed /\ led = HIGH /\ report = "Read Failed"
  /\ ValidChatId(canId) /\ Among(me, RecipientsOf(canId))

\* C19: while the node is in setupCan the only thing it does is try
\* mpcCan.begin again, as often as it fails: nothing is sent, read, shown or
\* selected, a failed attempt leaves it in setupCan and only an attempt that
\* succeeds lets it go on to the identity prompt.
C19_SetupCanRetries ==
  [][(pc = "setupCan") =>
       /\ op'.name = "setupCan"
       /\ ENABLED setupCan(FALSE) /\ ENABLED setupCan(TRUE)
       /\ me' = 0 /\ destination' = 0 /\ lastId' = 0 /\ led' = led
       /\ canId' = canId
       /\ sent' = << >> /\ shown' = << >> /\ logged' = << >>
       /\ (op'.how = "fail") => (pc' = "setupCan" /\ report' = "Init Failed")
       /\ (pc' # "setupCan") => (op'.how = "ok" /\ pc' = "setupUser")]_vars

\* an attempt has failed and the node is still in setupCan
C19_Witness ==
  /\ op.name = "setupCan" /\ op.how = "fail"
  /\ pc = "setupCan" /\ report = "Init Failed" /\ me = NONE

\* the receive step handed processCanPacket a valid chat identifier
ChatStep == Received' /\ ValidChatId(op'.num)

\* C20: a frame classified as a valid chat leaves the LED as it is whatever
\* its payload, also one that reads as a command for MEGA; when its recipient
\* bits do not hold me no chat is shown, and the raw packet is logged.
C20_ChatNeverWritesLed ==
  [][ChatStep =>
       /\ led' = led
       /\ logged' = << [id |-> op'.num, len |-> op'.len, data |-> op'.data] >>
       /\ ~Among(me, RecipientsOf(op'.num)) => shown' = << >>]_vars

\* a chat whose payload reads "MEGA, on" was shown and the LED is off
C20_Witness ==
  /\ Received /\ ValidChatId(op.num) /\ canId = op.num
  /\ op.data = << MEGA, HIGH >> /\ led = LOW /\ Len(shown) = 1

\* C21: a zero-length priming frame, handled under a chat identifier
\* addressed to me or under the command identifier 0x400, shows no chat
\* message and leaves the LED as it is.
C21_PrimingFrameTransparent ==
  [][(/\ Received' /\ op'.len = 0
      /\ \/ ValidChatId(op'.num) /\ Among(me, RecipientsOf(op'.num))
         \/ op'.num = 1024) =>
       (shown' = << >> /\ led' = led)]_vars

\* the last handler was buttonHandler
Polled == op.name = "buttonHandler"

\* C22: lastButtonVal starts LOW and is the value of the last command sent;
\* a poll sends a command exactly when the value read differs from it, the
\* command carries the value read, and so the first command carries HIGH and
\* the commands that follow alternate; a poll that reads the same value
\* sends nothing.
C22_ButtonAlternation ==
  /\ lastButtonVal = 0
  /\ [][/\ (lastButtonVal' # lastButtonVal) => CmdSend'
        /\ Polled' =>
             /\ op'.num \in {0, 1}
             /\ CmdSend' <=> (op'.num # lastButtonVal)
             /\ CmdSend' =>
                  /\ LastOf(sent').data[2] = op'.num
                  /\ LastOf(sent').data[2] = 1 - lastButtonVal
                  /\ lastButtonVal' = op'.num
             /\ ~CmdSend' => (sent' = << >> /\ lastButtonVal' = lastButtonVal)
        /\ CmdSend' => Polled']_vars

\* the button is held: the poll read HIGH again and sent nothing
C22_Witness ==
  /\ Polled /\ op.how = "same" /\ op.num = HIGH
  /\ lastButtonVal = HIGH /\ sent = << >> /\ lastId = 1024

\* the frames of the step begin with the priming frame of its data frame
Primed(q) ==
  /\ Len(q) = 2
  /\ q[1] = [id |-> q[2].id, len |-> 0, data |-> << >>]

\* C23: lastId is 0 and nothing has been sent when the node starts; a step
\* that sends leaves lastId at the identifier of the last frame it sent and
\* a step that sends nothing leaves lastId alone, so lastId is always the
\* identifier of the frame sent last.  A chat send finding lastId at 0 or at
\* the command identifier, and a command send finding it at 0 or at a chat
\* identifier, as the first ones after start-up do, begin with a priming
\* frame.
C23_LastIdIsLastFrameId ==
  /\ lastId = 0 /\ sent = << >>
  /\ [][/\ (sent' # << >>) => lastId' = LastOf(sent').id
        /\ (sent' = << >>) => lastId' = lastId
        /\ (sent' # << >> /\ lastId = 0) => Primed(sent')
        /\ (ChatSend' /\ lastId \in {0, 1024}) => Primed(sent')
        /\ (CmdSend' /\ lastId # 1024) => Primed(sent')
        /\ (sent' # << >> /\ ~Primed(sent')) =>
             (Len(sent') = 1 /\ sent'[1].id = lastId)]_vars

\* the first command after start-up went out behind its priming frame
C23_Witness ==
  /\ CmdSend /\ op.num = HIGH /\ Len(sent) = 2
  /\ sent[1] = [id |-> 1024, len |-> 0, data |-> << >>]
  /\ sent[2].len = 2 /\ lastId = 1024

\* C24: setupTargets returns only with a recipient set that is not empty: on
\* both ways out (the broadcast choice, a reply starting with n) destination
\* is not zero and names at least one of the five identities; a reply
\* starting with n while destination is 0 does not end the selection.
C24_TargetsNeverEmpty ==
  [][(pc = "setupTargets") =>
       /\ (pc' # "setupTargets") =>
            /\ pc' = "run"
            /\ op'.how \in {"broadcast", "done"}
            /\ destination' # 0
            /\ RecipientsOf(destination') # 0
       /\ (op'.data # << >> /\ op'.data[1] = 110 /\ destination = 0) =>
            pc' = "setupTargets"]_vars

\* C25: for every text canMsgSender reads, the characters copied into msg
\* and the zero that ends them fit in the 8 bytes of msg, also for a text of
\* 8 characters and for the texts sendCanMsg then rejects.
C25_CopyWithinBuffer ==
  ChatEntered => (Len(op.data) + 1 <= 8 /\ pc = "run")

\* the data frames canLedCmdSender sends for the two levels of the button
OwnCommands == {LastOf(canLedCmdSender(v, 1024).sent) : v \in {0, 1}}

\* C26: a data frame canLedCmdSender produces, handed to this node's own
\* processCanPacket under its identifier, leaves the node's LED as it is: the
\* command names UNO and the node is MEGA.
C26_OwnCommandsIgnored ==
  [][(/\ Received'
      /\ [id |-> op'.num, len |-> op'.len, data |-> op'.data] \in OwnCommands) =>
       (led' = led /\ op'.data[1] # 1 /\ shown' = << >>)]_vars

\* the node has sent "on" itself, reads that very frame and its LED stays off
C26_Witness ==
  /\ Received /\ op.num = 1024 /\ canId = 1024
  /\ op.data = << UNO, HIGH >> /\ op.len = 2
  /\ lastButtonVal = HIGH /\ led = LOW

====
